---- MODULE Spec2Model ----
(***************************************************************************)
(* Invoice totals engine of knlInvoice: the Invoice / InvoiceItem /        *)
(* PaymentRecord models (models.py), their post_save / post_delete signal  *)
(* handlers (signals.py) and the views that mutate them (views.py).        *)
(*                                                                         *)
(* Money is counted in kobo (1/100 Naira), quantities in hundredths and    *)
(* tax rates in tenths of a percent (7.5 % = 75).  The inputs are chosen   *)
(* so that no amount falls exactly half-way between two kobo: the results  *)
(* do not depend on the rounding mode of the database.                     *)
(*                                                                         *)
(* The model distinguishes the stored invoice row from the Python object   *)
(* a request holds in memory: a queryset update changes only the row,      *)
(* Model.save() writes the object's fields to the row.  Python arithmetic  *)
(* between a Decimal and a float raises TypeError; the operand kinds are   *)
(* modelled where the code mixes them.                                     *)
(*                                                                         *)
(* Spec is the views over stored values.  SpecPosts feeds the line-item    *)
(* views with posted fields, SpecAdmin adds the admin actions,             *)
(* SpecDocuments the figures handed to the PDF renderer and the JSON       *)
(* endpoint, and SpecSignals follows one request through its ORM calls     *)
(* and the signal receivers they fire.  SpecPayPosts feeds the payment     *)
(* views with posted amounts, SpecSend adds the e-mail view, SpecOwners    *)
(* the user each request is made by, SpecRace serves two add_invoice_item  *)
(* requests query by query.  SpecTrips is the trips and their expenses,    *)
(* SpecMail the e-mail service, SpecUsers the create_superuser command and *)
(* the login, SpecManifest the trip (manifest) invoice views.              *)
(***************************************************************************)
EXTENDS Integers, Sequences, FiniteSets, TLC

VARIABLES invoice, items, payments, lastOp, message

\* the signal dispatch of one request, step by step: the rows that exist,
\* the call stack, the request being served, the receivers it has run and how
\* it ended
VARIABLES rows, stack, op, fired, outcome

sigvars == <<rows, stack, op, fired, outcome>>

\* the figures last handed to the document renderer or returned as JSON
VARIABLE response

\* the stored invoice with everything derived from it
invoicing == <<invoice, items, payments, lastOp, message, sigvars, response>>

\* a trip, its expenses, and the profitability figures last computed for it
VARIABLES trip, expenses, metrics

tripvars == <<trip, expenses, metrics>>

\* what email_service.send_invoice_email last did: the messages handed to
\* the mail backend, the log lines of the last call, what it was called with
\* and what it returned
VARIABLE mail

mailvars == <<mail>>

\* the accounts (auth.User rows), the last run of the create_superuser
\* command and the browser session of the login views
VARIABLES users, console, session

uservars == <<users, console, session>>

\* the manifest invoice (TripInvoice row), its line items, one per trip, and
\* what the last manifest view answered
VARIABLES manifest, lines, notice

manifestvars == <<manifest, lines, notice>>

\* requests in flight for the stored invoice: where each one is in its code
\* and the Invoice object it holds in memory
VARIABLE requests

racevars == <<requests>>

\* everything but the trips
beyondTrips == <<mailvars, uservars, manifestvars, racevars>>

\* everything but the mail service
beyondMail == <<tripvars, uservars, manifestvars, racevars>>

\* everything but the accounts
beyondUsers == <<tripvars, mailvars, manifestvars, racevars>>

\* everything but the manifest invoice
beyondManifest == <<tripvars, mailvars, uservars, racevars>>

\* everything but the requests in flight
beyondRequests == <<tripvars, mailvars, uservars, manifestvars>>

\* the variables of the application outside standard invoices
elsewhere == <<tripvars, beyondTrips>>

\* requests served at the same time
MaxRequests == 2

vars == <<invoicing, elsewhere>>

(* ------------------------------ bounds --------------------------------- *)

MaxItems == 2

MaxPayments == 1

(* ----------------------------- input sets ------------------------------ *)

None == 0

Today == 2

DueDates == {None, 1}

TaxRates == {0, 75}

Statuses == {"draft", "sent", "pending", "paid", "overdue", "cancelled"}

\* the statuses a user submits in the invoice form
FormStatuses == {"draft", "sent", "paid", "cancelled"}

FormAmountsPaid == {0, 500}

\* quantity is a FloatField entered in steps of 0.01: 100 is 1, 130 is 1.3
QuantityUnit == 100

\* tax_rate is a percentage with one decimal: 75 is 7.5 %, a fraction of 75 / 1000
RateUnit == 1000

Quantities == {100, 130}

UnitPrices == {1001}

PayAmounts == {0, 500, 1076}

ItemInputs == [quantity : Quantities, unit_price : UnitPrices]

FormInputs ==
  [tax_rate : TaxRates, due_date : DueDates, amount_paid : FormAmountsPaid,
   status : FormStatuses]

RECURSIVE SeqsUpTo(_, _)
SeqsUpTo(S, n) ==
  IF n = 0 THEN {<<>>}
  ELSE LET shorter == SeqsUpTo(S, n - 1)
       IN shorter \cup {Append(s, x) : s \in {t \in shorter : Len(t) = n - 1}, x \in S}

ItemInputSeqs == SeqsUpTo(ItemInputs, MaxItems)

\* the element of a one-element set: Only({F(x) : x \in {e}}) is F applied to
\* the value of e
Only(S) == CHOOSE x \in S : TRUE

RemoveAt(s, i) == [j \in 1..(Len(s) - 1) |-> IF j < i THEN s[j] ELSE s[j + 1]]

(* ------------------------- numeric conversions ------------------------- *)

\* DecimalField(max_digits=12, decimal_places=2): n / d kobo stored as whole kobo,
\* rounded half to even
Quantize(n, d) ==
  LET q == n \div d
      r == n % d
  IN IF 2 * r < d THEN q
     ELSE IF 2 * r > d THEN q + 1
     ELSE IF q % 2 = 0 THEN q ELSE q + 1

\* Python raises TypeError for an arithmetic operation between Decimal and float
TypeError(a, b) == {a, b} = {"Decimal", "float"}

\* sum() over no items is the int 0, over Decimal item totals a Decimal
KindOfSum(its) == IF Len(its) = 0 THEN "int" ELSE "Decimal"

\* tax_rate is a FloatField, so tax_rate / 100 is a float
KindOfTaxRate == "float"

\* amount_paid comes from the row or from the form's DecimalField
KindOfAmountPaid == "Decimal"

(* ------------------------------ Invoice -------------------------------- *)

NoInvoice ==
  [pk |-> None, tax_rate |-> 0, due_date |-> None, status |-> "draft",
   subtotal |-> 0, tax_amount |-> 0, total |-> 0,
   amount_paid |-> 0, outstanding_amount |-> 0]

AllFields == DOMAIN NoInvoice

RECURSIVE SumItemTotals(_)
SumItemTotals(its) ==
  IF Len(its) = 0 THEN 0 ELSE its[1].total + SumItemTotals(Tail(its))

is_overdue(self) ==
  IF self.due_date # None /\ self.status # "paid"
  THEN self.due_date < Today
  ELSE FALSE

\* calculate_totals with subtotal accumulated onto the stored value (+= for =)
calculate_totals_accumulating(self, its) ==
  IF self.pk = None
  THEN [self EXCEPT !.subtotal = 0, !.tax_amount = 0, !.total = 0,
                    !.outstanding_amount = 0]
  ELSE LET Rest(subtotal) ==
             LET s1 == [self EXCEPT !.subtotal = subtotal]
                 tax == Quantize(subtotal * self.tax_rate, RateUnit)
                 s3 == [s1 EXCEPT !.tax_amount = tax, !.total = subtotal + tax]
             IN IF TypeError(KindOfSum(its), KindOfTaxRate) THEN s1
                ELSE IF TypeError("float", KindOfAmountPaid) THEN s3
                ELSE [s3 EXCEPT !.outstanding_amount = s3.total - self.amount_paid]
       IN Only({Rest(subtotal) : subtotal \in {self.subtotal + SumItemTotals(its)}})

calculate_totals(self, its) ==
  IF self.pk = None
  THEN [self EXCEPT !.subtotal = 0, !.tax_amount = 0, !.total = 0,
                    !.outstanding_amount = 0]
  ELSE LET Rest(subtotal) ==
             LET s1 == [self EXCEPT !.subtotal = subtotal]
                 tax == Quantize(subtotal * self.tax_rate, RateUnit)
                 s3 == [s1 EXCEPT !.tax_amount = tax, !.total = subtotal + tax]
             IN IF TypeError(KindOfSum(its), KindOfTaxRate) THEN s1
                ELSE IF TypeError("float", KindOfAmountPaid) THEN s3
                ELSE [s3 EXCEPT !.outstanding_amount = s3.total - self.amount_paid]
       IN Only({Rest(subtotal) : subtotal \in {SumItemTotals(its)}})

\* calculate_totals raises inside its try block (and swallows the exception)
calculate_totals_raises(self, its) ==
  /\ self.pk # None
  /\ \/ TypeError(KindOfSum(its), KindOfTaxRate)
     \/ TypeError("float", KindOfAmountPaid)

\* the row after Model.save writes the named fields of the object
WriteFields(row, obj, fields) ==
  IF fields = AllFields THEN obj
  ELSE [f \in AllFields |-> IF f \in fields THEN obj[f] ELSE row[f]]

\* Invoice.save on the object self whose stored row and items are row and its:
\* the object after the call and the row it wrote
Invoice_save(self, row, its, update_fields) ==
  LET Write(c) ==
        LET s == IF is_overdue(c) /\ c.status \notin {"paid", "cancelled"}
                 THEN [c EXCEPT !.status = "overdue"]
                 ELSE c
        IN IF self.pk = None
           THEN [obj |-> [s EXCEPT !.pk = 1], row |-> [s EXCEPT !.pk = 1]]
           ELSE [obj |-> s, row |-> WriteFields(row, s, update_fields)]
  IN Only({Write(c) : c \in {IF self.pk # None
                              THEN calculate_totals(self, its)
                              ELSE [self EXCEPT !.subtotal = 0, !.tax_amount = 0,
                                                !.total = 0,
                                                !.outstanding_amount = 0]}})

\* form.save(commit=False): a new Invoice object carrying the form's fields
NewInvoice(form) ==
  [NoInvoice EXCEPT !.tax_rate = form.tax_rate, !.due_date = form.due_date,
                    !.amount_paid = form.amount_paid, !.status = form.status]

(* ---------------------------- InvoiceItem ------------------------------ *)

\* InvoiceItem.calculate_total: total = float(quantity) * float(unit_price),
\* stored in a DecimalField of two places
calculate_total(quantity, unit_price) == Quantize(quantity * unit_price, QuantityUnit)

NewItem(inp) ==
  [quantity |-> inp.quantity, unit_price |-> inp.unit_price,
   total |-> calculate_total(inp.quantity, inp.unit_price)]

\* the handlers' loop: subtotal += Decimal(str(quantity)) * Decimal(str(unit_price)),
\* an exact Decimal counted here in 1 / QuantityUnit kobo
RECURSIVE SumQtyPrice(_)
SumQtyPrice(its) ==
  IF Len(its) = 0 THEN 0
  ELSE its[1].quantity * its[1].unit_price + SumQtyPrice(Tail(its))

DefaultTaxRate == 75

\* invoice.tax_rate or 7.5
HandlerTaxRate(inv) == IF inv.tax_rate # 0 THEN inv.tax_rate ELSE DefaultTaxRate

\* subtotal, tax_amount and total as the item handlers compute them from the
\* exact sum, each quantized when it is stored
HandlerTotals(inv, its) ==
  LET rate == HandlerTaxRate(inv)
  IN Only({[subtotal |-> Quantize(exact, QuantityUnit),
            tax_amount |-> Quantize(exact * rate, QuantityUnit * RateUnit),
            total |-> Quantize(exact * RateUnit + exact * rate, QuantityUnit * RateUnit)]
             : exact \in {SumQtyPrice(its)}})

\* post_save handler of InvoiceItem; its are the stored items of the invoice
update_invoice_totals_on_item_save(inv, row, its) ==
  Only({Invoice_save([inv EXCEPT !.subtotal = t.subtotal,
                                 !.tax_amount = t.tax_amount, !.total = t.total],
                     row, its, {"subtotal", "tax_amount", "total"})
          : t \in {HandlerTotals(inv, its)}})

\* post_delete handler of InvoiceItem
update_invoice_totals_on_item_delete(inv, row, its) ==
  Only({Invoice_save([inv EXCEPT !.subtotal = t.subtotal,
                                 !.tax_amount = t.tax_amount, !.total = t.total],
                     row, its, {"subtotal", "tax_amount", "total"})
          : t \in {HandlerTotals(inv, its)}})

\* InvoiceItem.save once the item row is written: its are the stored items
\* including the saved one, inv the Invoice object the item refers to
InvoiceItem_save(inv, row, its) ==
  LET Recalculate(h) ==
        Only({Invoice_save(c, h.row, its, AllFields) : c \in {calculate_totals(h.obj, its)}})
  IN Only({Recalculate(h) : h \in {update_invoice_totals_on_item_save(inv, row, its)}})

(* --------------------------- PaymentRecord ----------------------------- *)

RECURSIVE SumAmounts(_)
SumAmounts(pays) ==
  IF Len(pays) = 0 THEN 0 ELSE pays[1].amount + SumAmounts(Tail(pays))

\* the status the payment handlers derive from the payments and invoice.total
HandlerStatus(inv, total_paid) ==
  LET status == IF total_paid >= inv.total /\ inv.total > 0 THEN "paid"
                ELSE IF total_paid > 0 THEN "pending"
                ELSE "draft"
  IN IF status # "paid" /\ inv.due_date # None /\ inv.due_date < Today
     THEN "overdue"
     ELSE status

\* post_save handler of PaymentRecord: a queryset update of the row only
update_invoice_on_payment_save(inv, row, pays) ==
  Only({[row EXCEPT !.amount_paid = total_paid, !.status = HandlerStatus(inv, total_paid)]
          : total_paid \in {SumAmounts(pays)}})

\* post_delete handler of PaymentRecord
update_invoice_on_payment_delete(inv, row, pays) ==
  Only({[row EXCEPT !.amount_paid = total_paid, !.status = HandlerStatus(inv, total_paid)]
          : total_paid \in {SumAmounts(pays)}})

\* PaymentRecord.save once the payment row is written: pays are the stored
\* payments including the saved one, inv the Invoice object the payment refers to
PaymentRecord_save(inv, row, pays, its) ==
  LET Track(row1, c) ==
        Only({Invoice_save(o, row1, its, AllFields)
                : o \in {IF is_overdue(c) THEN [c EXCEPT !.status = "overdue"] ELSE c}})
  IN Only({Track(row1, c) : row1 \in {update_invoice_on_payment_save(inv, row, pays)},
                           c \in {calculate_totals(inv, its)}})

(* ------------------------------ actions -------------------------------- *)

\* no trip stored yet
NoTrip == [pk |-> None, revenue |-> 0]

\* no profitability figures computed yet; profit_margin is the fraction
\* margin_num / margin_den
NoMetrics ==
  [by |-> "none", raised |-> FALSE, total_expenses |-> 0, profit |-> 0,
   margin_num |-> 0, margin_den |-> 1, is_profitable |-> FALSE]

\* nothing rendered yet; figures are in thousandths of a kobo
NoResponse == [view |-> "none", ok |-> TRUE, subtotal |-> 0, tax |-> 0, total |-> 0]

\* Python's None where a string is expected
Unset == "None"

\* a worker that serves no request
Idle == [pc |-> "idle", obj |-> NoInvoice, inp |-> [quantity |-> 0, unit_price |-> 0]]

\* no manifest invoice stored
NoManifest ==
  [pk |-> None, status |-> "draft", tax_rate |-> 0, subtotal |-> 0,
   tax_amount |-> 0, total |-> 0, amount_paid |-> 0, outstanding_amount |-> 0]

\* no manifest view called yet
NoNotice == [view |-> "none", message |-> "none"]

\* the command has not run
NoConsole == [runs |-> 0, SUPERUSER_PASSWORD |-> Unset, out |-> "none"]

\* nobody is logged in
Anonymous == [user |-> Unset, message |-> "none"]

\* nothing mailed, no call made yet
NoMail ==
  [outbox |-> <<>>, log |-> <<>>, called |-> FALSE,
   call |-> [recipient_email |-> Unset, client |-> [pk |-> None, emailAddress |-> Unset],
             COMPANY_NAME |-> FALSE, pdf |-> "none", backend |-> "none"],
   returned |-> FALSE]

\* no invoice, item or payment row exists
NoRows == [Invoice |-> 0, InvoiceItem |-> 0, PaymentRecord |-> 0]

Init ==
  /\ invoice = NoInvoice
  /\ items = <<>>
  /\ payments = <<>>
  /\ lastOp = "none"
  /\ message = "none"
  /\ rows = NoRows
  /\ stack = <<>>
  /\ op = "none"
  /\ fired = 0
  /\ outcome = "none"
  /\ response = NoResponse
  /\ trip = NoTrip
  /\ expenses = <<>>
  /\ metrics = NoMetrics
  /\ mail = NoMail
  /\ users = {}
  /\ console = NoConsole
  /\ session = Anonymous
  /\ manifest = NoManifest
  /\ lines = <<>>
  /\ notice = NoNotice
  /\ requests = [r \in 1..MaxRequests |-> Idle]

invoice_create_ajax(form) ==
  /\ invoice.pk = None
  /\ \E new \in {NewInvoice(form)} :
       invoice' = Invoice_save(new, invoice, items, AllFields).row
  /\ lastOp' = "invoice_create_ajax"
  /\ message' = "success"
  /\ UNCHANGED <<items, payments>>
  /\ UNCHANGED <<sigvars, response, elsewhere>>

\* the item loop of invoice_create / invoice_update: st = [obj, row, items]
RECURSIVE CreateItems(_, _)
CreateItems(st, inputs) ==
  IF Len(inputs) = 0 THEN st
  ELSE LET Saved(its) ==
             Only({CreateItems([obj |-> r.obj, row |-> r.row, items |-> its], Tail(inputs))
                     : r \in {InvoiceItem_save(st.obj, st.row, its)}})
       IN Only({Saved(its) : its \in {Append(st.items, NewItem(inputs[1]))}})

\* invoice.calculate_totals(); invoice.save() closing invoice_create / invoice_update
SaveTotals(st) ==
  Only({[st EXCEPT !.row = r.row, !.obj = r.obj]
          : r \in {Only({Invoice_save(c, st.row, st.items, AllFields)
                           : c \in {calculate_totals(st.obj, st.items)}})}})

invoice_create(form, inputs) ==
  /\ invoice.pk = None
  /\ \E new \in {NewInvoice(form)} :
     \E first \in {Invoice_save(new, invoice, items, AllFields)} :
     \E st \in {CreateItems([obj |-> first.obj, row |-> first.row, items |-> items],
                             inputs)} :
     \E last \in {SaveTotals(st)} :
       /\ invoice' = last.row
       /\ items' = last.items
  /\ lastOp' = "invoice_create"
  /\ message' = "success"
  /\ UNCHANGED payments
  /\ UNCHANGED <<sigvars, response, elsewhere>>

add_invoice_item(inp) ==
  /\ invoice.pk # None
  /\ Len(items) < MaxItems
  /\ \E its \in {Append(items, NewItem(inp))} :
       /\ items' = its
       /\ invoice' = InvoiceItem_save(invoice, invoice, its).row
  /\ lastOp' = "add_invoice_item"
  /\ message' = "success"
  /\ UNCHANGED payments
  /\ UNCHANGED <<sigvars, response, elsewhere>>

edit_invoice_item(i, inp) ==
  /\ invoice.pk # None
  /\ i \in 1..Len(items)
  /\ \E its \in {[items EXCEPT ![i] = NewItem(inp)]} :
       /\ items' = its
       /\ invoice' = InvoiceItem_save(invoice, invoice, its).row
  /\ lastOp' = "edit_invoice_item"
  /\ message' = "success"
  /\ UNCHANGED payments
  /\ UNCHANGED <<sigvars, response, elsewhere>>

delete_invoice_item(i) ==
  /\ invoice.pk # None
  /\ i \in 1..Len(items)
  /\ \E its \in {RemoveAt(items, i)} :
       /\ items' = its
       /\ invoice' = update_invoice_totals_on_item_delete(invoice, invoice, its).row
  /\ lastOp' = "delete_invoice_item"
  /\ message' = "success"
  /\ UNCHANGED payments
  /\ UNCHANGED <<sigvars, response, elsewhere>>

\* the form invoice_update shows: the stored header fields and line items
FormOf(inv) ==
  [tax_rate |-> inv.tax_rate, due_date |-> inv.due_date,
   amount_paid |-> inv.amount_paid, status |-> inv.status]

InputsOf(its) ==
  [i \in 1..Len(its) |-> [quantity |-> its[i].quantity, unit_price |-> its[i].unit_price]]

\* the lines of a resubmitted form: all removed, or a single line
ReplacedLines == {<<>>} \cup {<<inp>> : inp \in ItemInputs}

\* submissions of that form with one header field edited, or with the lines replaced
UpdateInputs(inv, its) ==
  LET cur == FormOf(inv)
      edited == {[cur EXCEPT !.tax_rate = v] : v \in TaxRates}
                  \cup {[cur EXCEPT !.due_date = v] : v \in DueDates}
                  \cup {[cur EXCEPT !.amount_paid = v] : v \in FormAmountsPaid}
                  \cup {[cur EXCEPT !.status = v] : v \in FormStatuses}
  IN (edited \X {InputsOf(its)}) \cup ({cur} \X ReplacedLines)

\* invoice.items.all().delete(): the post_delete handler runs for each of the n
\* deleted items once they are all gone, on the invoice it loads from the row
RECURSIVE DeleteItems(_, _)
DeleteItems(st, n) ==
  IF n = 0 THEN st
  ELSE Only({DeleteItems([st EXCEPT !.row = r.row], n - 1)
               : r \in {update_invoice_totals_on_item_delete(st.row, st.row, <<>>)}})

invoice_update(form, inputs) ==
  /\ invoice.pk # None
  /\ \E bound \in {[invoice EXCEPT !.tax_rate = form.tax_rate,
                                     !.due_date = form.due_date,
                                     !.amount_paid = form.amount_paid,
                                     !.status = form.status]} :
     \E first \in {Invoice_save(bound, invoice, items, AllFields)} :
     \E gone \in {DeleteItems([obj |-> first.obj, row |-> first.row, items |-> <<>>],
                               Len(items))} :
     \E st \in {CreateItems(gone, inputs)} :
     \E last \in {SaveTotals(st)} :
       /\ invoice' = last.row
       /\ items' = last.items
  /\ lastOp' = "invoice_update"
  /\ message' = "success"
  /\ UNCHANGED payments
  /\ UNCHANGED <<sigvars, response, elsewhere>>

record_payment(amount) ==
  /\ invoice.pk # None
  /\ Len(payments) < MaxPayments
  /\ lastOp' = "record_payment"
  /\ IF amount <= 0
     THEN /\ message' = "error"
          /\ UNCHANGED <<invoice, items, payments>>
     ELSE /\ \E pays \in {Append(payments, [amount |-> amount])} :
               /\ payments' = pays
               /\ invoice' = PaymentRecord_save(invoice, invoice, pays, items).row
          /\ message' = "success"
          /\ UNCHANGED items
  /\ UNCHANGED <<sigvars, response, elsewhere>>

edit_payment(i, amount) ==
  /\ invoice.pk # None
  /\ i \in 1..Len(payments)
  /\ lastOp' = "edit_payment"
  /\ IF amount <= 0
     THEN /\ message' = "error"
          /\ UNCHANGED <<invoice, items, payments>>
     ELSE /\ \E pays \in {[payments EXCEPT ![i] = [amount |-> amount]]} :
               /\ payments' = pays
               /\ invoice' = PaymentRecord_save(invoice, invoice, pays, items).row
          /\ message' = "success"
          /\ UNCHANGED items
  /\ UNCHANGED <<sigvars, response, elsewhere>>

delete_payment(i) ==
  /\ invoice.pk # None
  /\ i \in 1..Len(payments)
  /\ \E pays \in {RemoveAt(payments, i)} :
       /\ payments' = pays
       /\ invoice' = update_invoice_on_payment_delete(invoice, invoice, pays)
  /\ lastOp' = "delete_payment"
  /\ message' = "success"
  /\ UNCHANGED items
  /\ UNCHANGED <<sigvars, response, elsewhere>>

\* invoice.calculate_totals() followed by invoice.save() on the stored invoice
recompute_totals ==
  /\ invoice.pk # None
  /\ \E c \in {calculate_totals(invoice, items)} :
       invoice' = Invoice_save(c, invoice, items, AllFields).row
  /\ lastOp' = "recompute_totals"
  /\ message' = "none"
  /\ UNCHANGED <<items, payments>>
  /\ UNCHANGED <<sigvars, response, elsewhere>>

Next ==
  \/ \E form \in FormInputs : invoice_create_ajax(form)
  \/ \E form \in FormInputs, inputs \in ItemInputSeqs :
       invoice_create(form, inputs)
  \/ \E u \in UpdateInputs(invoice, items) : invoice_update(u[1], u[2])
  \/ \E inp \in ItemInputs : add_invoice_item(inp)
  \/ \E i \in 1..MaxItems, inp \in ItemInputs : edit_invoice_item(i, inp)
  \/ \E i \in 1..MaxItems : delete_invoice_item(i)
  \/ \E amount \in PayAmounts : record_payment(amount)
  \/ \E i \in 1..MaxPayments, amount \in PayAmounts : edit_payment(i, amount)
  \/ \E i \in 1..MaxPayments : delete_payment(i)
  \/ recompute_totals

Spec == Init /\ [][Next]_vars

(* --------------------- line-item submissions as posted ------------------ *)
(* The actions above take the numbers the views obtain; these take the     *)
(* posted fields and parse them the way each view does.                    *)

\* a posted field: a number, a key that is absent, an empty string, or text
\* that float() does not accept
PostFields(numbers) ==
  {[kind |-> "number", value |-> n] : n \in numbers}
    \cup {[kind |-> k, value |-> 0] : k \in {"missing", "blank", "text"}}

ItemPosts == [quantity : PostFields(Quantities), unit_price : PostFields(UnitPrices)]

\* the rows of the invoice form: getlist yields a string for every row
RowPosts == {post \in ItemPosts : post.quantity.kind # "missing"
                                     /\ post.unit_price.kind # "missing"}

RowPostSeqs == SeqsUpTo(RowPosts, MaxItems)

\* float(request.POST.get(name, default)): ValueError unless ok
float_or_default(field, default) ==
  CASE field.kind = "number" -> [ok |-> TRUE, value |-> field.value]
    [] field.kind = "missing" -> [ok |-> TRUE, value |-> default]
    [] OTHER -> [ok |-> FALSE, value |-> 0]

\* float(x) if x else default: ValueError unless ok
float_if_given(field, default) ==
  CASE field.kind = "number" -> [ok |-> TRUE, value |-> field.value]
    [] field.kind = "blank" -> [ok |-> TRUE, value |-> default]
    [] OTHER -> [ok |-> FALSE, value |-> 0]

\* the item loop's parsing: a row whose float() raises is passed over
RECURSIVE ParseRows(_)
ParseRows(posts) ==
  IF Len(posts) = 0 THEN <<>>
  ELSE LET q == float_if_given(posts[1].quantity, QuantityUnit)
           p == float_if_given(posts[1].unit_price, 0)
       IN (IF q.ok /\ p.ok
           THEN <<[quantity |-> q.value, unit_price |-> p.value]>>
           ELSE <<>>) \o ParseRows(Tail(posts))

\* the request ends in an unhandled ValueError: nothing is written
ServerError(name) ==
  /\ lastOp' = name
  /\ message' = "error"
  /\ UNCHANGED <<invoice, items, payments>>
  /\ UNCHANGED <<sigvars, response, elsewhere>>

invoice_create_POST(form, posts) ==
  \E inputs \in {ParseRows(posts)} : invoice_create(form, inputs)

invoice_update_POST(posts) ==
  \E inputs \in {ParseRows(posts)} : invoice_update(FormOf(invoice), inputs)

add_invoice_item_POST(post) ==
  \E q \in {float_or_default(post.quantity, QuantityUnit)} :
  \E p \in {float_or_default(post.unit_price, 0)} :
    IF q.ok /\ p.ok
    THEN add_invoice_item([quantity |-> q.value, unit_price |-> p.value])
    ELSE invoice.pk # None /\ ServerError("add_invoice_item")

edit_invoice_item_POST(i, post) ==
  /\ i \in 1..Len(items)
  /\ \E q \in {float_or_default(post.quantity, items[i].quantity)} :
     \E p \in {float_or_default(post.unit_price, items[i].unit_price)} :
       IF q.ok /\ p.ok
       THEN edit_invoice_item(i, [quantity |-> q.value, unit_price |-> p.value])
       ELSE invoice.pk # None /\ ServerError("edit_invoice_item")

NextPosts ==
  \/ \E form \in FormInputs, posts \in RowPostSeqs : invoice_create_POST(form, posts)
  \/ \E posts \in SeqsUpTo(RowPosts, 1) : invoice_update_POST(posts)
  \/ \E post \in ItemPosts : add_invoice_item_POST(post)
  \/ \E i \in 1..MaxItems, post \in ItemPosts : edit_invoice_item_POST(i, post)
  \/ \E i \in 1..MaxItems : delete_invoice_item(i)

\* the line-item views fed with posted fields
SpecPosts == Init /\ [][NextPosts]_vars

(* ----------------------- payment submissions as posted ------------------ *)
(* record_payment and edit_payment fed with the posted amount field.       *)

\* posted amounts are counted in tenths of a kobo: 4 is 0.004 Naira
AmountUnit == 10

\* -5.00, 0, 0.004, 5.00 and 10.76 Naira
PostedAmounts == {-5000, 0, 4, 5000, 10760}

PayPosts == [amount : PostFields(PostedAmounts)]

\* the amount as the DecimalField stores it, in kobo
StoredAmount(amount) == Quantize(amount, AmountUnit)

\* POST /invoices/<pk>/payment/: float(request.POST.get('amount', 0)) inside
\* the try, the ValueError answered with a message
record_payment_POST(post) ==
  /\ invoice.pk # None
  /\ Len(payments) < MaxPayments
  /\ lastOp' = "record_payment"
  /\ \E amount \in {float_or_default(post.amount, 0)} :
       IF ~amount.ok \/ amount.value <= 0
       THEN /\ message' = "error"
            /\ UNCHANGED <<invoice, items, payments>>
       ELSE /\ \E pays \in {Append(payments,
                                   [amount |-> StoredAmount(amount.value)])} :
                 /\ payments' = pays
                 /\ invoice' = PaymentRecord_save(invoice, invoice, pays, items).row
            /\ message' = "success"
            /\ UNCHANGED items
  /\ UNCHANGED <<sigvars, response, elsewhere>>

\* POST /payments/<pk>/edit/: float(request.POST.get('amount', payment.amount))
\* outside any try
edit_payment_POST(i, post) ==
  /\ invoice.pk # None
  /\ i \in 1..Len(payments)
  /\ \E amount \in {float_or_default(post.amount, payments[i].amount * AmountUnit)} :
       IF ~amount.ok
       THEN ServerError("edit_payment")
       ELSE /\ lastOp' = "edit_payment"
            /\ IF amount.value <= 0
               THEN /\ message' = "error"
                    /\ UNCHANGED <<invoice, items, payments>>
               ELSE /\ \E pays \in {[payments EXCEPT
                                      ![i] = [amount |-> StoredAmount(amount.value)]]} :
                         /\ payments' = pays
                         /\ invoice' =
                              PaymentRecord_save(invoice, invoice, pays, items).row
                    /\ message' = "success"
                    /\ UNCHANGED items
            /\ UNCHANGED <<sigvars, response, elsewhere>>

NextPayPosts ==
  \/ \E form \in FormInputs, inputs \in ItemInputSeqs :
       invoice_create(form, inputs)
  \/ \E post \in PayPosts : record_payment_POST(post)
  \/ \E i \in 1..MaxPayments, post \in PayPosts : edit_payment_POST(i, post)
  \/ \E i \in 1..MaxPayments : delete_payment(i)

\* the payment views fed with posted fields
SpecPayPosts == Init /\ [][NextPayPosts]_vars

(* ------------------- figures shown to renderer and client --------------- *)

VatRate == 75

DocumentTaxRates == TaxRates \cup {100}

\* the invoices whose documents are rendered: draft, no due date, nothing paid
DocumentForms ==
  [tax_rate : DocumentTaxRates, due_date : {None}, amount_paid : {0},
   status : {"draft"}]

\* the context get_invoice_pdf_context builds from the stored invoice
get_invoice_pdf_context(inv) ==
  [view |-> "invoice_pdf_download", ok |-> TRUE,
   subtotal |-> inv.subtotal * RateUnit,
   tax |-> inv.subtotal * VatRate,
   total |-> inv.subtotal * RateUnit + inv.subtotal * VatRate]

\* the JSON of invoice_items_json; float * Decimal raises TypeError for an
\* item's total, Decimal * float for the tax of a subtotal other than zero
invoice_items_json_response(inv, its) ==
  IF Len(its) > 0 \/ (inv.subtotal # 0 /\ TypeError("Decimal", "float"))
  THEN [view |-> "invoice_items_json", ok |-> FALSE,
        subtotal |-> 0, tax |-> 0, total |-> 0]
  ELSE [view |-> "invoice_items_json", ok |-> TRUE,
        subtotal |-> inv.subtotal * RateUnit,
        tax |-> 0,
        total |-> inv.total * RateUnit]

invoice_pdf_download ==
  /\ invoice.pk # None
  /\ response' = get_invoice_pdf_context(invoice)
  /\ lastOp' = "invoice_pdf_download"
  /\ message' = "none"
  /\ UNCHANGED <<invoice, items, payments>>
  /\ UNCHANGED <<sigvars, elsewhere>>

invoice_items_json ==
  /\ invoice.pk # None
  /\ response' = invoice_items_json_response(invoice, items)
  /\ lastOp' = "invoice_items_json"
  /\ message' = "none"
  /\ UNCHANGED <<invoice, items, payments>>
  /\ UNCHANGED <<sigvars, elsewhere>>

NextDocuments ==
  \/ \E form \in DocumentForms, inputs \in ItemInputSeqs : invoice_create(form, inputs)
  \/ \E inp \in ItemInputs : add_invoice_item(inp)
  \/ \E i \in 1..MaxItems : delete_invoice_item(i)
  \/ invoice_pdf_download
  \/ invoice_items_json

\* invoices of any tax rate, their lines, and the documents made of them
SpecDocuments == Init /\ [][NextDocuments]_vars

(* ---------------------- admin actions on invoices ----------------------- *)

\* InvoiceAdmin's actions: queryset.update(status=...) writes the row alone
mark_as_paid ==
  /\ invoice.pk # None
  /\ invoice' = [invoice EXCEPT !.status = "paid"]
  /\ lastOp' = "mark_as_paid"
  /\ message' = "success"
  /\ UNCHANGED <<items, payments>>
  /\ UNCHANGED <<sigvars, response, elsewhere>>

mark_as_pending ==
  /\ invoice.pk # None
  /\ invoice' = [invoice EXCEPT !.status = "pending"]
  /\ lastOp' = "mark_as_pending"
  /\ message' = "success"
  /\ UNCHANGED <<items, payments>>
  /\ UNCHANGED <<sigvars, response, elsewhere>>

mark_as_sent ==
  /\ invoice.pk # None
  /\ invoice' = [invoice EXCEPT !.status = "sent"]
  /\ lastOp' = "mark_as_sent"
  /\ message' = "success"
  /\ UNCHANGED <<items, payments>>
  /\ UNCHANGED <<sigvars, response, elsewhere>>

NextAdmin ==
  \/ Next
  \/ mark_as_paid
  \/ mark_as_pending
  \/ mark_as_sent

\* the views together with the admin site
SpecAdmin == Init /\ [][NextAdmin]_vars

(* ------------------------- trips and expenses --------------------------- *)
(* Revenue and expense amounts are whole Naira.                            *)

MaxExpenses == 2

Revenues == {0, 1000, 2500}

ExpenseAmounts == {300, 1000}

\* Sum('amount') over the expenses of the trip
RECURSIVE SumExpenses(_)
SumExpenses(exps) ==
  IF Len(exps) = 0 THEN 0 ELSE exps[1] + SumExpenses(Tail(exps))

\* Trip.get_total_expenses: the aggregate over self.expenses, 0.0 for none
get_total_expenses(self, exps) == SumExpenses(exps)

\* Trip.get_profit
get_profit(self, exps) == self.revenue - get_total_expenses(self, exps)

\* Trip.get_profit_margin with the revenue test left out
get_profit_margin_unguarded(self, exps) ==
  IF self.revenue # 0
  THEN [raised |-> FALSE, num |-> get_profit(self, exps) * 100, den |-> self.revenue]
  ELSE [raised |-> TRUE, num |-> 0, den |-> 1]

\* Trip.get_profit_margin: (profit / revenue) * 100, or 0.0 without revenue
get_profit_margin(self, exps) ==
  IF self.revenue > 0
  THEN [raised |-> FALSE, num |-> get_profit(self, exps) * 100, den |-> self.revenue]
  ELSE [raised |-> FALSE, num |-> 0, den |-> 1]

\* the reverse accessors a Trip has: TripExpense.trip names its own 'expenses'
TripAccessors == {"expenses"}

\* calculate_trip_profitability: trip.tripexpense_set raises AttributeError
\* unless the accessor exists, and the except branch returns zeros
calculate_trip_profitability(self, exps) ==
  IF "tripexpense_set" \in TripAccessors
  THEN [by |-> "calculate_trip_profitability", raised |-> FALSE,
        total_expenses |-> SumExpenses(exps),
        profit |-> self.revenue - SumExpenses(exps),
        margin_num |-> IF self.revenue > 0
                       THEN (self.revenue - SumExpenses(exps)) * 100 ELSE 0,
        margin_den |-> IF self.revenue > 0 THEN self.revenue ELSE 1,
        is_profitable |-> self.revenue - SumExpenses(exps) > 0]
  ELSE [by |-> "calculate_trip_profitability", raised |-> FALSE,
        total_expenses |-> 0, profit |-> 0, margin_num |-> 0, margin_den |-> 1,
        is_profitable |-> FALSE]

trip_create(revenue) ==
  /\ trip.pk = None
  /\ trip' = [pk |-> 1, revenue |-> revenue]
  /\ UNCHANGED <<expenses, metrics>>
  /\ UNCHANGED <<invoicing, beyondTrips>>

trip_update(revenue) ==
  /\ trip.pk # None
  /\ trip' = [trip EXCEPT !.revenue = revenue]
  /\ UNCHANGED <<expenses, metrics>>
  /\ UNCHANGED <<invoicing, beyondTrips>>

expense_create(amount) ==
  /\ trip.pk # None
  /\ Len(expenses) < MaxExpenses
  /\ amount > 0
  /\ expenses' = Append(expenses, amount)
  /\ UNCHANGED <<trip, metrics>>
  /\ UNCHANGED <<invoicing, beyondTrips>>

edit_expense(i, amount) ==
  /\ trip.pk # None
  /\ i \in 1..Len(expenses)
  /\ amount > 0
  /\ expenses' = [expenses EXCEPT ![i] = amount]
  /\ UNCHANGED <<trip, metrics>>
  /\ UNCHANGED <<invoicing, beyondTrips>>

delete_expense(i) ==
  /\ trip.pk # None
  /\ i \in 1..Len(expenses)
  /\ expenses' = RemoveAt(expenses, i)
  /\ UNCHANGED <<trip, metrics>>
  /\ UNCHANGED <<invoicing, beyondTrips>>

\* trip.get_profit() and trip.get_profit_margin() on the stored trip
trip_profit ==
  /\ trip.pk # None
  /\ \E m \in {get_profit_margin(trip, expenses)} :
       metrics' = [by |-> "Trip", raised |-> m.raised,
                   total_expenses |-> get_total_expenses(trip, expenses),
                   profit |-> get_profit(trip, expenses),
                   margin_num |-> m.num, margin_den |-> m.den,
                   is_profitable |-> get_profit(trip, expenses) > 0]
  /\ UNCHANGED <<trip, expenses>>
  /\ UNCHANGED <<invoicing, beyondTrips>>

\* calculate_trip_profitability(trip) on the stored trip
trip_profitability ==
  /\ trip.pk # None
  /\ metrics' = calculate_trip_profitability(trip, expenses)
  /\ UNCHANGED <<trip, expenses>>
  /\ UNCHANGED <<invoicing, beyondTrips>>

NextTrips ==
  \/ \E revenue \in Revenues : trip_create(revenue)
  \/ \E revenue \in Revenues : trip_update(revenue)
  \/ \E amount \in ExpenseAmounts : expense_create(amount)
  \/ \E i \in 1..MaxExpenses, amount \in ExpenseAmounts : edit_expense(i, amount)
  \/ \E i \in 1..MaxExpenses : delete_expense(i)
  \/ trip_profit
  \/ trip_profitability

\* trips, their expenses and the figures computed from them
SpecTrips == Init /\ [][NextTrips]_vars

(* ------------------- signal dispatch, one step at a time ---------------- *)
(* The same requests seen through the ORM calls they make: which rows      *)
(* exist, which function is running and which receivers each write fires.  *)
(* Row contents are left out here; they are the subject of Spec.           *)

MaxDepth == 6

\* a receiver of the invoice's own post_save that recomputes the totals
ReceiversWithInvoiceReceiver(signal, sender) ==
  IF signal = "post_save" /\ sender \in {"InvoiceItem", "Invoice"}
    THEN <<"update_invoice_totals_on_item_save">>
  ELSE IF signal = "post_delete" /\ sender = "InvoiceItem"
    THEN <<"update_invoice_totals_on_item_delete">>
  ELSE IF signal = "post_save" /\ sender = "PaymentRecord"
    THEN <<"update_invoice_on_payment_save">>
  ELSE IF signal = "post_delete" /\ sender = "PaymentRecord"
    THEN <<"update_invoice_on_payment_delete">>
  ELSE <<>>

\* the receivers signals.py registers, by signal and sender
Receivers(signal, sender) ==
  IF signal = "post_save" /\ sender = "InvoiceItem"
    THEN <<"update_invoice_totals_on_item_save">>
  ELSE IF signal = "post_delete" /\ sender = "InvoiceItem"
    THEN <<"update_invoice_totals_on_item_delete">>
  ELSE IF signal = "post_save" /\ sender = "PaymentRecord"
    THEN <<"update_invoice_on_payment_save">>
  ELSE IF signal = "post_delete" /\ sender = "PaymentRecord"
    THEN <<"update_invoice_on_payment_delete">>
  ELSE <<>>

ReceiverNames ==
  {"update_invoice_totals_on_item_save", "update_invoice_totals_on_item_delete",
   "update_invoice_on_payment_save", "update_invoice_on_payment_delete"}

\* payments that outlive their invoice (on_delete other than CASCADE)
CascadesItemsOnly == <<"InvoiceItem">>

\* the models whose rows are deleted with their invoice (on_delete=CASCADE)
Cascades == <<"InvoiceItem", "PaymentRecord">>

\* the requests that write invoices, items or payments
Requests ==
  {"invoice_create_ajax", "add_invoice_item", "edit_invoice_item",
   "delete_invoice_item", "record_payment", "edit_payment", "delete_payment",
   "delete_invoice"}

ORMStep(do, on, arg) == [do |-> do, on |-> on, arg |-> arg]

\* the ORM calls of a function, in order.  arg tells a save what it writes:
\* "new" a row to insert, "all" every field of a stored object, "fields" the
\* update_fields of a stored object
Code(fn, arg) ==
  CASE fn = "invoice_create_ajax" -> <<ORMStep("call", "Invoice.save", "new")>>
    [] fn = "add_invoice_item" -> <<ORMStep("call", "InvoiceItem.save", "new")>>
    [] fn = "edit_invoice_item" -> <<ORMStep("call", "InvoiceItem.save", "all")>>
    [] fn = "delete_invoice_item" -> <<ORMStep("delete", "InvoiceItem", "")>>
    [] fn = "record_payment" -> <<ORMStep("call", "PaymentRecord.save", "new")>>
    [] fn = "edit_payment" -> <<ORMStep("call", "PaymentRecord.save", "all")>>
    [] fn = "delete_payment" -> <<ORMStep("delete", "PaymentRecord", "")>>
    [] fn = "delete_invoice" -> <<ORMStep("delete", "Invoice", "")>>
    [] fn = "Invoice.save" -> <<ORMStep("save", "Invoice", arg)>>
    [] fn = "InvoiceItem.save" ->
         <<ORMStep("save", "InvoiceItem", arg), ORMStep("call", "Invoice.save", "all")>>
    [] fn = "PaymentRecord.save" ->
         <<ORMStep("save", "PaymentRecord", arg), ORMStep("call", "Invoice.save", "all")>>
    [] fn = "update_invoice_totals_on_item_save" ->
         <<ORMStep("call", "Invoice.save", "fields")>>
    [] fn = "update_invoice_totals_on_item_delete" ->
         <<ORMStep("call", "Invoice.save", "fields")>>
    [] fn = "update_invoice_on_payment_save" -> <<ORMStep("update", "Invoice", "")>>
    [] fn = "update_invoice_on_payment_delete" -> <<ORMStep("update", "Invoice", "")>>

Frame(fn, arg) == [fn |-> fn, todo |-> Code(fn, arg)]

\* what a request needs to find in the database
Servable(o) ==
  CASE o = "invoice_create_ajax" -> rows.Invoice = 0
    [] o = "add_invoice_item" -> rows.Invoice = 1 /\ rows.InvoiceItem < MaxItems
    [] o \in {"edit_invoice_item", "delete_invoice_item"} -> rows.InvoiceItem > 0
    [] o = "record_payment" -> rows.Invoice = 1 /\ rows.PaymentRecord < MaxPayments
    [] o \in {"edit_payment", "delete_payment"} -> rows.PaymentRecord > 0
    [] o = "delete_invoice" -> rows.Invoice = 1

Running == stack # <<>>

Top == stack[Len(stack)]

\* the stack with the running function's next ORM call replaced by steps
Continue(steps) ==
  [stack EXCEPT ![Len(stack)].todo = steps \o Tail(Top.todo)]

RECURSIVE Repeat(_, _)
Repeat(s, n) == IF n = 0 THEN <<>> ELSE <<s>> \o Repeat(s, n - 1)

\* Collector.delete of the invoice: each cascading model's rows are deleted
\* in one batch and their post_delete signals sent, the invoice row goes last
RECURSIVE Collect(_)
Collect(models) ==
  IF Len(models) = 0
  THEN <<ORMStep("delete_batch", "Invoice", ""), ORMStep("post_delete", "Invoice", "")>>
  ELSE <<ORMStep("delete_batch", models[1], "")>>
         \o Repeat(ORMStep("post_delete", models[1], ""), rows[models[1]])
         \o Collect(Tail(models))

\* an exception leaves every function up to the nearest receiver, whose
\* try/except ends it; with no receiver running the request fails
RECURSIVE Unwind(_)
Unwind(st) ==
  IF Len(st) = 0 THEN st
  ELSE IF st[Len(st)].fn \in ReceiverNames
       THEN [st EXCEPT ![Len(st)].todo = <<>>]
       ELSE Unwind(SubSeq(st, 1, Len(st) - 1))

Begin(o) ==
  /\ ~Running
  /\ Servable(o)
  /\ stack' = <<Frame(o, "")>>
  /\ op' = o
  /\ fired' = 0
  /\ outcome' = "running"
  /\ UNCHANGED <<rows, invoice, items, payments, lastOp, message,
               response, elsewhere>>

\* a function calls another one
Call ==
  /\ Running
  /\ Top.todo # <<>>
  /\ Head(Top.todo).do = "call"
  /\ Len(stack) < MaxDepth
  /\ stack' = Append(Continue(<<>>), Frame(Head(Top.todo).on, Head(Top.todo).arg))
  /\ UNCHANGED <<rows, op, fired, outcome, invoice, items, payments, lastOp, message,
               response, elsewhere>>

\* Model.save, QuerySet.update, Model.delete: the row is written and the
\* signals of the write are queued in the writing function
Write ==
  /\ Running
  /\ Top.todo # <<>>
  /\ \E s \in {Head(Top.todo)} :
       /\ s.do \in {"save", "update", "delete", "delete_batch"}
       /\ IF s.do = "save" /\ s.arg = "fields" /\ rows[s.on] = 0
          THEN \* DatabaseError: save with update_fields affected no row
               /\ stack' = Unwind(stack)
               /\ outcome' = IF Unwind(stack) = <<>> THEN "error" ELSE outcome
               /\ rows' = rows
          ELSE /\ outcome' = outcome
               /\ rows' =
                    CASE s.do = "save" /\ s.arg = "new" ->
                           [rows EXCEPT ![s.on] = @ + 1]
                      [] s.do = "save" /\ s.arg = "all" ->
                           [rows EXCEPT ![s.on] = IF @ = 0 THEN 1 ELSE @]
                      [] s.do = "delete" /\ s.on # "Invoice" ->
                           [rows EXCEPT ![s.on] = @ - 1]
                      [] s.do = "delete_batch" -> [rows EXCEPT ![s.on] = 0]
                      [] OTHER -> rows
               /\ stack' =
                    CASE s.do = "save" -> Continue(<<ORMStep("post_save", s.on, "")>>)
                      [] s.do = "delete" /\ s.on = "Invoice" -> Continue(Collect(Cascades))
                      [] s.do = "delete" -> Continue(<<ORMStep("post_delete", s.on, "")>>)
                      [] OTHER -> Continue(<<>>)
  /\ UNCHANGED <<op, fired, invoice, items, payments, lastOp, message,
               response, elsewhere>>

\* a signal is sent: its receivers are called one after the other
Send ==
  /\ Running
  /\ Top.todo # <<>>
  /\ \E s \in {Head(Top.todo)} :
       /\ s.do \in {"post_save", "post_delete"}
       /\ \E rs \in {Receivers(s.do, s.on)} :
            /\ stack' = Continue([i \in 1..Len(rs) |-> ORMStep("call", rs[i], "")])
            /\ fired' = fired + Len(rs)
  /\ UNCHANGED <<rows, op, outcome, invoice, items, payments, lastOp, message,
               response, elsewhere>>

\* the running function ends; the request succeeds when the view returns
Return ==
  /\ Running
  /\ Top.todo = <<>>
  /\ stack' = SubSeq(stack, 1, Len(stack) - 1)
  /\ outcome' = IF Len(stack) = 1 THEN "success" ELSE outcome
  /\ UNCHANGED <<rows, op, fired, invoice, items, payments, lastOp, message,
               response, elsewhere>>

NextSignals ==
  \/ \E o \in Requests : Begin(o)
  \/ Call
  \/ Write
  \/ Send
  \/ Return

\* a request that has begun runs on: Python executes its code to the end
SpecSignals ==
  Init /\ [][NextSignals]_vars /\ WF_vars(Call \/ Write \/ Send \/ Return)

(* ------------------------------ email service --------------------------- *)
(* email_service.send_invoice_email(invoice, recipient_email): what it      *)
(* hands to the mail backend, what it logs and what it returns.             *)

\* messages handed to the mail backend
MaxMails == 2

\* recipient_email as passed by the caller: not given, empty, an address
Recipients == {Unset, "", "billing@client"}

\* invoice.client: no client (the FK is nullable), or a client whose
\* emailAddress is NULL, empty or an address
Clients ==
  {[pk |-> None, emailAddress |-> Unset]}
    \cup {[pk |-> 1, emailAddress |-> e] : e \in {Unset, "", "office@client"}}

\* what generate_invoice_pdf meets: the PDF builds, ReportLab is not
\* installed, or building raises
PdfRuns == {"built", "no_reportlab", "raises"}

\* what the mail backend does with the message
Backends == {"accepts", "raises"}

MailCalls ==
  [recipient_email : Recipients, client : Clients, COMPANY_NAME : BOOLEAN,
   pdf : PdfRuns, backend : Backends]

\* Python truthiness of an optional string
Truthy(x) == x # Unset /\ x # ""

\* generate_invoice_pdf(invoice): the bytes or None, and what it logs
generate_invoice_pdf(run) ==
  IF run = "no_reportlab"
  THEN [content |-> Unset, log |-> <<[level |-> "warning", msg |-> "ReportLab not installed"]>>]
  ELSE IF run = "raises"
  THEN [content |-> Unset, log |-> <<[level |-> "error", msg |-> "Error generating PDF"]>>]
  ELSE [content |-> "pdf", log |-> <<>>]

\* the outer except of send_invoice_email
SendFailed(log) ==
  [sent |-> <<>>, log |-> Append(log, [level |-> "error", msg |-> "Error sending invoice email"]),
   returned |-> FALSE]

\* send_invoice_email with the building of the PDF outside any try: what
\* generate_invoice_pdf cannot build ends the call
send_invoice_email_unattached(c) ==
  IF ~Truthy(c.recipient_email) /\ c.client.pk = None
  THEN SendFailed(<<>>)
  ELSE LET to_email == IF Truthy(c.recipient_email) THEN c.recipient_email
                       ELSE c.client.emailAddress
       IN
    IF ~Truthy(to_email)
    THEN [sent |-> <<>>, log |-> <<[level |-> "error", msg |-> "No email address"]>>, returned |-> FALSE]
    ELSE IF ~c.COMPANY_NAME
    THEN SendFailed(<<>>)
    ELSE LET pdf == generate_invoice_pdf(c.pdf) IN
      IF pdf.content = Unset
      THEN SendFailed(pdf.log)
      ELSE IF c.backend = "raises"
      THEN SendFailed(pdf.log)
      ELSE [sent |-> <<[to |-> to_email, attachment |-> pdf.content]>>,
            log |-> Append(pdf.log, [level |-> "info", msg |-> "Invoice email sent"]),
            returned |-> TRUE]

\* send_invoice_email(invoice, recipient_email): the message sent (if any),
\* the log lines and the value returned
send_invoice_email(c) ==
  IF ~Truthy(c.recipient_email) /\ c.client.pk = None
  THEN SendFailed(<<>>)
  ELSE LET to_email == IF Truthy(c.recipient_email) THEN c.recipient_email
                       ELSE c.client.emailAddress
       IN
    IF ~Truthy(to_email)
    THEN [sent |-> <<>>, log |-> <<[level |-> "error", msg |-> "No email address"]>>, returned |-> FALSE]
    ELSE IF ~c.COMPANY_NAME
    THEN SendFailed(<<>>)
    ELSE LET pdf == generate_invoice_pdf(c.pdf) IN
      IF c.backend = "raises"
      THEN SendFailed(pdf.log)
      ELSE [sent |-> <<[to |-> to_email, attachment |-> pdf.content]>>,
            log |-> Append(pdf.log, [level |-> "info", msg |-> "Invoice email sent"]),
            returned |-> TRUE]

\* one call of the service
email_invoice(c) ==
  /\ Len(mail.outbox) < MaxMails
  /\ \E r \in {send_invoice_email(c)} :
       mail' = [outbox |-> mail.outbox \o r.sent, log |-> r.log,
                called |-> TRUE, call |-> c, returned |-> r.returned]
  /\ UNCHANGED <<invoicing, beyondMail>>

NextMail == \E c \in MailCalls : email_invoice(c)

\* the email service called again and again
SpecMail == Init /\ [][NextMail]_vars

(* ------------------------ the invoice e-mail view ----------------------- *)
(* views.send_invoice_email: renders the PDF, mails it to the client and   *)
(* marks the invoice sent.                                                 *)

\* generate_pdf_weasyprint(invoice): the PDF, None, or an exception
WeasyprintRuns == {"built", "none", "raises"}

\* POST /invoices/<pk>/email-send/ by the owner of the stored invoice
send_invoice_email_POST(client, pdf, backend) ==
  /\ invoice.pk # None
  /\ lastOp' = "send_invoice_email"
  /\ IF pdf = "raises"
     THEN message' = "Failed to send email" /\ UNCHANGED invoice
     ELSE IF pdf = "none"
     THEN message' = "Could not generate PDF for email." /\ UNCHANGED invoice
     ELSE IF client.pk = None
     THEN message' = "Failed to send email" /\ UNCHANGED invoice
     ELSE IF ~Truthy(client.emailAddress)
     THEN message' = "Client has no email address." /\ UNCHANGED invoice
     ELSE IF invoice.due_date = None \/ backend = "raises"
     THEN message' = "Failed to send email" /\ UNCHANGED invoice
     ELSE /\ message' = "Invoice sent successfully"
          /\ \E sent \in {[invoice EXCEPT !.status = "sent"]} :
               invoice' = Invoice_save(sent, invoice, items, AllFields).row
  /\ UNCHANGED <<items, payments>>
  /\ UNCHANGED <<sigvars, response, elsewhere>>

\* the invoices that get mailed: created as drafts with nothing paid, due in
\* the past, in the future or on no date
SendForms ==
  [tax_rate : TaxRates, due_date : DueDates \cup {Today + 1}, amount_paid : {0},
   status : {"draft"}]

NextSend ==
  \/ \E form \in SendForms, inputs \in ItemInputSeqs :
       invoice_create(form, inputs)
  \/ \E inp \in ItemInputs : add_invoice_item(inp)
  \/ \E i \in 1..MaxItems, inp \in ItemInputs : edit_invoice_item(i, inp)
  \/ \E i \in 1..MaxItems : delete_invoice_item(i)
  \/ \E amount \in PayAmounts : record_payment(amount)
  \/ \E i \in 1..MaxPayments, amount \in PayAmounts : edit_payment(i, amount)
  \/ \E i \in 1..MaxPayments : delete_payment(i)
  \/ recompute_totals
  \/ \E client \in Clients, pdf \in WeasyprintRuns, backend \in Backends :
       send_invoice_email_POST(client, pdf, backend)

\* invoices created, filled, paid and mailed
SpecSend == Init /\ [][NextSend]_vars

(* ------------------------- whose invoice it is -------------------------- *)
(* The mutation views called by the invoice's owner and by somebody else.  *)

\* the logged-in users
Accounts == {"A", "B"}

\* invoice.user of the stored invoice: invoice_create sets it to the user
\* who created it
InvoiceUser == "B"

\* a lookup that does not filter on the user
OwnedByAnyone(user) == TRUE

\* get_object_or_404(Invoice, pk=pk, user=request.user) finds the invoice;
\* invoice.user == request.user in the payment views
Owned(user) == user = InvoiceUser

\* the view answers 404 or 'Permission denied.' and writes nothing
Denied(name, answer) ==
  /\ lastOp' = name
  /\ message' = answer
  /\ UNCHANGED <<invoice, items, payments>>
  /\ UNCHANGED <<sigvars, response, elsewhere>>

invoice_update_by(user, form, inputs) ==
  /\ invoice.pk # None
  /\ IF Owned(user) THEN invoice_update(form, inputs)
     ELSE Denied("invoice_update", "404")

add_invoice_item_by(user, inp) ==
  /\ invoice.pk # None
  /\ IF Owned(user) THEN add_invoice_item(inp)
     ELSE Denied("add_invoice_item", "404")

edit_invoice_item_by(user, i, inp) ==
  /\ invoice.pk # None
  /\ i \in 1..Len(items)
  /\ IF Owned(user) THEN edit_invoice_item(i, inp)
     ELSE Denied("edit_invoice_item", "404")

delete_invoice_item_by(user, i) ==
  /\ invoice.pk # None
  /\ i \in 1..Len(items)
  /\ IF Owned(user) THEN delete_invoice_item(i)
     ELSE Denied("delete_invoice_item", "404")

record_payment_by(user, amount) ==
  /\ invoice.pk # None
  /\ IF Owned(user) THEN record_payment(amount)
     ELSE Denied("record_payment", "404")

edit_payment_by(user, i, amount) ==
  /\ invoice.pk # None
  /\ i \in 1..Len(payments)
  /\ IF Owned(user) THEN edit_payment(i, amount)
     ELSE Denied("edit_payment", "Permission denied.")

delete_payment_by(user, i) ==
  /\ invoice.pk # None
  /\ i \in 1..Len(payments)
  /\ IF Owned(user) THEN delete_payment(i)
     ELSE Denied("delete_payment", "Permission denied.")

send_invoice_email_by(user, client, pdf, backend) ==
  /\ invoice.pk # None
  /\ IF Owned(user) THEN send_invoice_email_POST(client, pdf, backend)
     ELSE Denied("send_invoice_email", "404")

\* the invoice B creates: a draft at 7.5 % with nothing paid, due tomorrow
OwnerForms ==
  [tax_rate : {75}, due_date : {Today + 1}, amount_paid : {0}, status : {"draft"}]

\* the form invoice_update shows, resubmitted with the lines replaced
OwnerUpdates(inv) == {FormOf(inv)} \X ReplacedLines

NextOwners ==
  \/ \E form \in OwnerForms, inputs \in ItemInputSeqs :
       invoice_create(form, inputs)
  \/ \E user \in Accounts, u \in OwnerUpdates(invoice) :
       invoice_update_by(user, u[1], u[2])
  \/ \E user \in Accounts, inp \in ItemInputs : add_invoice_item_by(user, inp)
  \/ \E user \in Accounts, i \in 1..MaxItems, inp \in ItemInputs :
       edit_invoice_item_by(user, i, inp)
  \/ \E user \in Accounts, i \in 1..MaxItems : delete_invoice_item_by(user, i)
  \/ \E user \in Accounts, amount \in PayAmounts : record_payment_by(user, amount)
  \/ \E user \in Accounts, i \in 1..MaxPayments, amount \in PayAmounts :
       edit_payment_by(user, i, amount)
  \/ \E user \in Accounts, i \in 1..MaxPayments : delete_payment_by(user, i)
  \/ \E user \in Accounts, client \in Clients, pdf \in WeasyprintRuns,
        backend \in Backends :
       send_invoice_email_by(user, client, pdf, backend)

\* B's invoice, and the requests A and B make for it
SpecOwners == Init /\ [][NextOwners]_vars

(* ------------------------------- accounts ------------------------------- *)
(* The create_superuser management command and the login views.            *)

\* runs of the command
MaxRuns == 6

\* the default of os.getenv('SUPERUSER_PASSWORD', ...)
DefaultPassword == "Kamrate@2026!Admin"

\* the value of SUPERUSER_PASSWORD in the environment of a run
Environments == {Unset, "s3cret-from-env"}

\* passwords typed into the login form
TypedPasswords == {DefaultPassword, "s3cret-from-env", "limited1"}

\* make_password: what is stored is a hash, not the password
make_password(password) == [algorithm |-> "pbkdf2_sha256", of |-> password]

\* check_password against a stored hash
check_password(password, encoded) == encoded = make_password(password)

\* os.getenv('SUPERUSER_PASSWORD', default)
getenv(env, default) == IF env = Unset THEN default ELSE env

\* User.objects.filter(username=...)
UsersNamed(us, username) == {u \in us : u.username = username}

\* User.objects.create_superuser(username, email, password)
create_superuser(us, username, password) ==
  us \cup {[username |-> username, password |-> make_password(password),
            is_superuser |-> TRUE]}

\* Command.handle: the accounts and the output after one run
handle(us, env, db) ==
  IF UsersNamed(us, "admin") = {}
  THEN IF db = "raises"
       THEN [users |-> us, out |-> "Error creating superuser"]
       ELSE [users |-> create_superuser(us, "admin", "limited1"),
             out |-> "Superuser created successfully"]
  ELSE [users |-> us, out |-> "Superuser already exists"]

\* python manage.py create_superuser
create_superuser_command(env, db) ==
  /\ console.runs < MaxRuns
  /\ LET r == handle(users, env, db)
     IN /\ users' = r.users
        /\ console' = [runs |-> console.runs + 1, SUPERUSER_PASSWORD |-> env,
                       out |-> r.out]
  /\ UNCHANGED session
  /\ UNCHANGED <<invoicing, beyondUsers>>

\* authenticate(request, username, password)
authenticate(us, username, password) ==
  {u \in UsersNamed(us, username) : check_password(password, u.password)}

login_view(username, password) ==
  /\ session.user = Unset
  /\ session' = IF authenticate(users, username, password) # {}
                THEN [user |-> username, message |-> "Welcome back!"]
                ELSE [user |-> Unset, message |-> "Invalid username or password."]
  /\ UNCHANGED <<users, console>>
  /\ UNCHANGED <<invoicing, beyondUsers>>

logout_view ==
  /\ session' = [user |-> Unset, message |-> "Logged out successfully."]
  /\ UNCHANGED <<users, console>>
  /\ UNCHANGED <<invoicing, beyondUsers>>

NextUsers ==
  \/ \E env \in Environments, db \in {"ok", "raises"} :
       create_superuser_command(env, db)
  \/ \E password \in TypedPasswords : login_view("admin", password)
  \/ logout_view

\* deployments running the command, and people logging in
SpecUsers == Init /\ [][NextUsers]_vars

(* --------------------------- manifest invoices -------------------------- *)
(* The trip_invoice_* views.  The TripInvoice model they call is not part  *)
(* of the sources at hand: calculate_totals, add_trip, remove_trip and     *)
(* save follow the totals contract the specification gives for it.         *)

\* trips that can be billed
MaxTrips == 2

ManifestTrips == 1..MaxTrips

\* trip.revenue: 10.00 and 10.10 Naira
TripRevenue(t) == IF t % 2 = 1 THEN 1000 ELSE 1010

\* amounts entered for a line item
LineAmounts == {1000, 1010}

\* amounts posted as payments: -5.00, 0, 10.00 and 20.10 Naira
PostedPayments == {-500, 0, 1000, 2010}

\* float('20.10') is the double just above 20.10; the other amounts are
\* doubles
FloatAbove == {2010}

\* float > Decimal compares the exact values
FloatGreater(amount, decimal) ==
  amount > decimal \/ (amount = decimal /\ amount \in FloatAbove)

PaymentPosts == [amount : PostFields(PostedPayments)]

LinePosts == [amount : PostFields(LineAmounts)]

\* the selections of the create form: trips in some order, none twice
Selections ==
  {sel \in SeqsUpTo(ManifestTrips, MaxTrips) :
     \A i, j \in 1..Len(sel) : i # j => sel[i] # sel[j]}

RECURSIVE SumLineAmounts(_)
SumLineAmounts(lns) ==
  IF Len(lns) = 0 THEN 0 ELSE lns[1].amount + SumLineAmounts(Tail(lns))

\* TripInvoice.calculate_totals
TripInvoice_calculate_totals(self, lns) ==
  LET subtotal == SumLineAmounts(lns)
      tax == Quantize(subtotal * self.tax_rate, RateUnit)
      due == subtotal + tax - self.amount_paid
  IN [self EXCEPT !.subtotal = subtotal, !.tax_amount = tax,
                  !.total = subtotal + tax,
                  !.outstanding_amount = IF due > 0 THEN due ELSE 0]

\* TripInvoice.add_trip: the line items and the invoice after the call
TripInvoice_add_trip(self, lns, t, amount) ==
  LET added == Append(lns, [trip |-> t, amount |-> amount])
  IN [lines |-> added, invoice |-> TripInvoice_calculate_totals(self, added)]

\* TripInvoice.remove_trip
TripInvoice_remove_trip(self, lns, i) ==
  LET left == RemoveAt(lns, i)
  IN [lines |-> left, invoice |-> TripInvoice_calculate_totals(self, left)]

RECURSIVE AddTrips(_, _, _)
\* the loop of trip_invoice_create over the selected trips
AddTrips(self, lns, sel) ==
  IF Len(sel) = 0 THEN [lines |-> lns, invoice |-> self]
  ELSE LET r == TripInvoice_add_trip(self, lns, sel[1], TripRevenue(sel[1]))
       IN AddTrips(r.invoice, r.lines, Tail(sel))

\* a lookup that never finds the trip
NeverOnInvoice(lns, t) == FALSE

\* invoice.line_items.filter(trip=trip).exists()
AlreadyOnInvoice(lns, t) == \E i \in 1..Len(lns) : lns[i].trip = t

\* a test that lets every amount pass
ExceedsNothing(amount, outstanding) == FALSE

\* amount > invoice.outstanding_amount
ExceedsOutstanding(amount, outstanding) == FloatGreater(amount, outstanding)

\* what a manifest view answers
Answer(view, said) == notice' = [view |-> view, message |-> said]

trip_invoice_create(tax_rate, sel) ==
  /\ manifest.pk = None
  /\ IF Len(sel) = 0
     THEN /\ Answer("trip_invoice_create", "error")
          /\ UNCHANGED <<manifest, lines>>
     ELSE /\ Answer("trip_invoice_create", "success")
          /\ \E r \in {AddTrips([NoManifest EXCEPT !.pk = 1, !.tax_rate = tax_rate],
                                <<>>, sel)} :
               /\ lines' = r.lines
               /\ manifest' = TripInvoice_calculate_totals(r.invoice, r.lines)
  /\ UNCHANGED <<invoicing, beyondManifest>>

trip_invoice_update_status(new_status) ==
  /\ manifest.pk # None
  /\ IF new_status \in Statuses
     THEN /\ manifest' = [manifest EXCEPT !.status = new_status]
          /\ Answer("trip_invoice_update_status", "success")
     ELSE /\ Answer("trip_invoice_update_status", "error")
          /\ UNCHANGED manifest
  /\ UNCHANGED lines
  /\ UNCHANGED <<invoicing, beyondManifest>>

trip_invoice_record_payment(post) ==
  /\ manifest.pk # None
  /\ \E amount \in {float_or_default(post.amount, 0)} :
       IF \/ ~amount.ok
          \/ amount.value <= 0
          \/ ExceedsOutstanding(amount.value, manifest.outstanding_amount)
       THEN /\ Answer("trip_invoice_record_payment", "error")
            /\ UNCHANGED manifest
       ELSE /\ Answer("trip_invoice_record_payment", "success")
            /\ \E paid \in {manifest.amount_paid + amount.value} :
                 manifest' =
                   IF manifest.total - paid <= 0
                   THEN [manifest EXCEPT !.amount_paid = paid, !.status = "paid",
                                         !.outstanding_amount = 0]
                   ELSE [manifest EXCEPT !.amount_paid = paid, !.status = "pending",
                                         !.outstanding_amount = manifest.total - paid]
  /\ UNCHANGED lines
  /\ UNCHANGED <<invoicing, beyondManifest>>

trip_invoice_edit(tax_rate) ==
  /\ manifest.pk # None
  /\ IF manifest.status \notin {"draft", "pending"}
     THEN /\ Answer("trip_invoice_edit", "warning")
          /\ UNCHANGED manifest
     ELSE /\ Answer("trip_invoice_edit", "success")
          /\ manifest' = TripInvoice_calculate_totals(
                           [manifest EXCEPT !.tax_rate = tax_rate], lines)
  /\ UNCHANGED lines
  /\ UNCHANGED <<invoicing, beyondManifest>>

trip_invoice_add_trip(t, post) ==
  /\ manifest.pk # None
  /\ Len(lines) <= MaxTrips
  /\ \E amount \in {float_or_default(post.amount, TripRevenue(t))} :
       IF manifest.status # "draft" \/ AlreadyOnInvoice(lines, t) \/ ~amount.ok
       THEN /\ Answer("trip_invoice_add_trip", "error")
            /\ UNCHANGED <<manifest, lines>>
       ELSE /\ Answer("trip_invoice_add_trip", "success")
            /\ \E r \in {TripInvoice_add_trip(manifest, lines, t, amount.value)} :
                 /\ lines' = r.lines
                 /\ manifest' = r.invoice
  /\ UNCHANGED <<invoicing, beyondManifest>>

trip_invoice_remove_trip(i) ==
  /\ manifest.pk # None
  /\ i \in 1..Len(lines)
  /\ IF manifest.status # "draft"
     THEN /\ Answer("trip_invoice_remove_trip", "error")
          /\ UNCHANGED <<manifest, lines>>
     ELSE /\ Answer("trip_invoice_remove_trip", "success")
          /\ \E r \in {TripInvoice_remove_trip(manifest, lines, i)} :
               /\ lines' = r.lines
               /\ manifest' = r.invoice
  /\ UNCHANGED <<invoicing, beyondManifest>>

\* Decimal(str(request.POST.get('amount', item.amount))): InvalidOperation for
\* an empty string or text
trip_invoice_edit_trip(i, post) ==
  /\ manifest.pk # None
  /\ i \in 1..Len(lines)
  /\ \E amount \in {float_or_default(post.amount, lines[i].amount)} :
       IF manifest.status # "draft" \/ ~amount.ok
       THEN /\ Answer("trip_invoice_edit_trip", "error")
            /\ UNCHANGED <<manifest, lines>>
       ELSE /\ Answer("trip_invoice_edit_trip", "success")
            /\ \E edited \in {[lines EXCEPT ![i].amount = amount.value]} :
                 /\ lines' = edited
                 /\ manifest' = TripInvoice_calculate_totals(manifest, edited)
  /\ UNCHANGED <<invoicing, beyondManifest>>

trip_invoice_delete ==
  /\ manifest.pk # None
  /\ IF manifest.status # "draft"
     THEN /\ Answer("trip_invoice_delete", "error")
          /\ UNCHANGED <<manifest, lines>>
     ELSE /\ Answer("trip_invoice_delete", "success")
          /\ manifest' = NoManifest
          /\ lines' = <<>>
  /\ UNCHANGED <<invoicing, beyondManifest>>

trip_invoice_send ==
  /\ manifest.pk # None
  /\ manifest' = [manifest EXCEPT !.status = "sent"]
  /\ Answer("trip_invoice_send", "success")
  /\ UNCHANGED lines
  /\ UNCHANGED <<invoicing, beyondManifest>>

NextManifest ==
  \/ \E tax_rate \in TaxRates, sel \in Selections : trip_invoice_create(tax_rate, sel)
  \/ \E new_status \in Statuses \cup {"archived"} :
       trip_invoice_update_status(new_status)
  \/ \E post \in PaymentPosts : trip_invoice_record_payment(post)
  \/ \E tax_rate \in TaxRates : trip_invoice_edit(tax_rate)
  \/ \E t \in ManifestTrips, post \in LinePosts : trip_invoice_add_trip(t, post)
  \/ \E i \in 1..MaxTrips : trip_invoice_remove_trip(i)
  \/ \E i \in 1..MaxTrips, post \in LinePosts : trip_invoice_edit_trip(i, post)
  \/ trip_invoice_delete
  \/ trip_invoice_send

\* one manifest invoice through its views
SpecManifest == Init /\ [][NextManifest]_vars

(* ------------------- two add_invoice_item requests at once -------------- *)
(* add_invoice_item query by query: each request loads the invoice, inserts *)
(* its item, and then reads the items and writes the invoice twice, in the  *)
(* post_save handler and at the end of InvoiceItem.save.  Nothing locks the *)
(* invoice row and no transaction spans the request.                        *)

\* request r moves on to the step pc, holding the object obj
Step(r, pc, obj) == requests' = [requests EXCEPT ![r].pc = pc, ![r].obj = obj]

\* get_object_or_404(Invoice, pk=pk, user=request.user) and the posted fields
request_begins(r, inp) ==
  /\ invoice.pk # None
  /\ requests[r].pc = "idle"
  /\ requests' = [requests EXCEPT ![r] = [pc |-> "insert", obj |-> invoice, inp |-> inp]]
  /\ UNCHANGED <<invoice, items, payments, lastOp, message>>
  /\ UNCHANGED <<sigvars, response, beyondRequests>>

\* InvoiceItem.save: super().save() inserts the row
item_inserted(r) ==
  /\ requests[r].pc = "insert"
  /\ Len(items) < MaxItems
  /\ items' = Append(items, NewItem(requests[r].inp))
  /\ Step(r, "handler", requests[r].obj)
  /\ UNCHANGED <<invoice, payments, lastOp, message>>
  /\ UNCHANGED <<sigvars, response, beyondRequests>>

\* update_invoice_totals_on_item_save: the loop over invoice.items.all()
handler_reads_items(r) ==
  /\ requests[r].pc = "handler"
  /\ \E t \in {HandlerTotals(requests[r].obj, items)} :
       Step(r, "handler_save",
            [requests[r].obj EXCEPT !.subtotal = t.subtotal,
                                    !.tax_amount = t.tax_amount, !.total = t.total])
  /\ UNCHANGED <<invoice, items, payments, lastOp, message>>
  /\ UNCHANGED <<sigvars, response, beyondRequests>>

\* invoice.save(update_fields=...) in the handler: calculate_totals reads the
\* items
handler_save_reads(r) ==
  /\ requests[r].pc = "handler_save"
  /\ Step(r, "handler_write",
          Invoice_save(requests[r].obj, invoice, items,
                       {"subtotal", "tax_amount", "total"}).obj)
  /\ UNCHANGED <<invoice, items, payments, lastOp, message>>
  /\ UNCHANGED <<sigvars, response, beyondRequests>>

\* ... and the UPDATE of the three fields
handler_save_writes(r) ==
  /\ requests[r].pc = "handler_write"
  /\ invoice' = WriteFields(invoice, requests[r].obj,
                            {"subtotal", "tax_amount", "total"})
  /\ Step(r, "recalculate", requests[r].obj)
  /\ UNCHANGED <<items, payments, lastOp, message>>
  /\ UNCHANGED <<sigvars, response, beyondRequests>>

\* InvoiceItem.save: self.invoice.calculate_totals()
item_save_recalculates(r) ==
  /\ requests[r].pc = "recalculate"
  /\ Step(r, "save", calculate_totals(requests[r].obj, items))
  /\ UNCHANGED <<invoice, items, payments, lastOp, message>>
  /\ UNCHANGED <<sigvars, response, beyondRequests>>

\* InvoiceItem.save: self.invoice.save(), whose calculate_totals reads the
\* items
invoice_save_reads(r) ==
  /\ requests[r].pc = "save"
  /\ Step(r, "write", Invoice_save(requests[r].obj, invoice, items, AllFields).obj)
  /\ UNCHANGED <<invoice, items, payments, lastOp, message>>
  /\ UNCHANGED <<sigvars, response, beyondRequests>>

\* ... and the UPDATE of the whole row
invoice_save_writes(r) ==
  /\ requests[r].pc = "write"
  /\ invoice' = WriteFields(invoice, requests[r].obj, AllFields)
  /\ Step(r, "done", requests[r].obj)
  /\ UNCHANGED <<items, payments, lastOp, message>>
  /\ UNCHANGED <<sigvars, response, beyondRequests>>

NextRace ==
  \/ \E form \in OwnerForms, inputs \in SeqsUpTo(ItemInputs, 1) :
       /\ invoice_create(form, inputs)
       /\ \A r \in 1..MaxRequests : requests[r].pc = "idle"
  \/ \E r \in 1..MaxRequests, inp \in ItemInputs : request_begins(r, inp)
  \/ \E r \in 1..MaxRequests : item_inserted(r)
  \/ \E r \in 1..MaxRequests : handler_reads_items(r)
  \/ \E r \in 1..MaxRequests : handler_save_reads(r)
  \/ \E r \in 1..MaxRequests : handler_save_writes(r)
  \/ \E r \in 1..MaxRequests : item_save_recalculates(r)
  \/ \E r \in 1..MaxRequests : invoice_save_reads(r)
  \/ \E r \in 1..MaxRequests : invoice_save_writes(r)

\* an invoice and the add_invoice_item requests served for it at once
SpecRace == Init /\ [][NextRace]_vars

(* ----------------------------- properties ------------------------------ *)

ItemOps == {"add_invoice_item", "edit_invoice_item", "delete_invoice_item"}

PaymentOps == {"record_payment", "edit_payment", "delete_payment"}

\* the request handled last was one of ops and went through
Completed(ops) == lastOp \in ops /\ message = "success"

Max(a, b) == IF a >= b THEN a ELSE b

\* the five stored amounts of an invoice
Amounts(inv) ==
  <<inv.subtotal, inv.tax_amount, inv.total, inv.amount_paid, inv.outstanding_amount>>

\* the stored invoice after one more calculate_totals() and save()
Recomputed(inv, its) ==
  Only({Invoice_save(c, inv, its, AllFields).row : c \in {calculate_totals(inv, its)}})

\* C1: after a completed record_payment, edit_payment or delete_payment the
\* stored amount_paid is the sum of the amounts of the stored payments
C1_AmountPaidIsSumOfPayments ==
  Completed(PaymentOps) => invoice.amount_paid = SumAmounts(payments)

\* C2: after record_payment has recorded the only payment of an invoice and
\* that payment equals the total (total > 0), the stored outstanding_amount
\* is 0 and the stored status is paid
C2_FullPaymentMarksPaid ==
  (/\ Completed({"record_payment"})
   /\ Len(payments) = 1
   /\ invoice.total > 0
   /\ payments[1].amount = invoice.total)
    => (invoice.outstanding_amount = 0 /\ invoice.status = "paid")

\* C3: after a completed line-item or payment mutation the stored
\* outstanding_amount is max(0, total - amount_paid)
C3_OutstandingIsClampedDifference ==
  Completed(ItemOps \cup PaymentOps)
    => invoice.outstanding_amount = Max(0, invoice.total - invoice.amount_paid)

\* C4: after a line-item create, edit or delete the stored subtotal is the sum
\* of quantity x unit_price over the stored line items, to the kobo
C4_SubtotalIsSumOfLines ==
  Completed(ItemOps) => invoice.subtotal = Quantize(SumQtyPrice(items), QuantityUnit)

\* C5: after a line-item mutation the stored tax_amount is the stored subtotal
\* times the invoice's own tax_rate / 100, so 0 when tax_rate is 0
C5_TaxIsOwnRateOfSubtotal ==
  Completed(ItemOps)
    => invoice.tax_amount = Quantize(invoice.subtotal * invoice.tax_rate, RateUnit)

\* C6: after a line-item mutation the stored total is the stored subtotal plus
\* the stored tax_amount
C6_TotalIsSubtotalPlusTax ==
  Completed(ItemOps) => invoice.total = invoice.subtotal + invoice.tax_amount

\* C7: once the totals of an invoice have been recomputed (calculate_totals
\* then save), recomputing them again with the same line items and payments
\* leaves subtotal, tax_amount, total, amount_paid and outstanding_amount as
\* they are
C7_RecomputeIsIdempotent ==
  lastOp = "recompute_totals" => Amounts(Recomputed(invoice, items)) = Amounts(invoice)

\* C7 witness: the totals of an invoice with line items have been recomputed
C7_RecomputedWithLines ==
  /\ lastOp = "recompute_totals"
  /\ Len(items) > 0
  /\ invoice.subtotal = SumItemTotals(items)
  /\ invoice.subtotal > 0

\* C8: a stored invoice with no line items and no payments has subtotal,
\* tax_amount, total, amount_paid and outstanding_amount all 0
C8_EmptyInvoiceIsAllZero ==
  (invoice.pk # None /\ Len(items) = 0 /\ Len(payments) = 0)
    => Amounts(invoice) = <<0, 0, 0, 0, 0>>

\* C9: after a completed payment operation an invoice whose payments sum to
\* at least its total (total > 0) does not have status overdue
C9_PaidInFullIsNotOverdue ==
  (/\ Completed(PaymentOps)
   /\ invoice.total > 0
   /\ SumAmounts(payments) >= invoice.total)
    => invoice.status # "overdue"

\* C10: after a completed line-item or payment mutation, status paid implies
\* total > 0 and amount_paid >= total
C10_PaidImpliesCovered ==
  (Completed(ItemOps \cup PaymentOps) /\ invoice.status = "paid")
    => (invoice.total > 0 /\ invoice.amount_paid >= invoice.total)

\* the due date of the invoice is before today
DuePassed(inv) == inv.due_date # None /\ inv.due_date < Today

\* C11: an invoice stored as sent whose due date has passed and that has no
\* payments is stored as overdue after an invoice save and after any
\* line-item create, edit or delete on it
C11_PastDueSentBecomesOverdue ==
  [][(/\ invoice.status = "sent"
      /\ DuePassed(invoice)
      /\ payments = <<>>
      /\ lastOp' \in ItemOps \cup {"recompute_totals"})
       => invoice'.status = "overdue"]_vars

\* C12: when the last payment of an invoice whose due date has not passed is
\* deleted, the payment handler leaves an explicit status draft or sent as
\* it is
C12_NoPaymentsKeepsExplicitStatus ==
  [][(/\ lastOp' = "delete_payment"
      /\ payments' = <<>>
      /\ ~DuePassed(invoice)
      /\ invoice.status \in {"draft", "sent"})
       => invoice'.status = invoice.status]_vars

\* C13: no line-item operation, payment operation or recompute-and-save
\* turns the status of a cancelled invoice into overdue
C13_CancelledNeverBecomesOverdue ==
  [][(/\ invoice.status = "cancelled"
      /\ lastOp' \in ItemOps \cup PaymentOps \cup {"recompute_totals"})
       => invoice'.status # "overdue"]_vars

\* C14: after a completed payment operation that leaves an invoice partially
\* paid (0 < sum of payments < total), the status the payment handler derives
\* is pending, also when the due date has passed
C14_PartialPaymentIsPending ==
  (/\ Completed(PaymentOps)
   /\ 0 < SumAmounts(payments)
   /\ SumAmounts(payments) < invoice.total)
    => HandlerStatus(invoice, SumAmounts(payments)) = "pending"

\* C16: after a line-item save whose calculate_totals raised, the stored
\* subtotal is the value the invoice held when calculate_totals started (the
\* one the handler had assigned): the failed recompute changed nothing
C16_FailedRecomputeKeepsSubtotal ==
  (/\ Completed({"add_invoice_item", "edit_invoice_item"})
   /\ calculate_totals_raises(invoice, items))
    => invoice.subtotal = HandlerTotals(invoice, items).subtotal

\* C17: a line-item or payment save that completes as a success had no
\* failure inside its recompute of the invoice totals
C17_RecomputeFailureIsReported ==
  Completed({"add_invoice_item", "edit_invoice_item", "record_payment", "edit_payment"})
    => ~calculate_totals_raises(invoice, items)

\* a submission whose quantity or unit price is not a number
BadPost(post) == post.quantity.kind # "number" \/ post.unit_price.kind # "number"

\* C18: a line-item submission whose quantity or unit price is missing or
\* does not parse as a number stores no line item: add_invoice_item leaves the
\* items as they were
C18_BadSubmissionStoresNothing ==
  [][\A post \in ItemPosts :
       (BadPost(post) /\ add_invoice_item_POST(post)) => UNCHANGED items]_vars

\* the stored figures of an invoice, in thousandths of a kobo
StoredFigures(inv) ==
  [subtotal |-> inv.subtotal * RateUnit, tax |-> inv.tax_amount * RateUnit,
   total |-> inv.total * RateUnit]

\* C20: the context of get_invoice_pdf_context and the JSON of
\* invoice_items_json carry the stored subtotal, tax_amount and total of the
\* invoice unaltered, whatever its tax_rate
C20_SnapshotCarriesStoredFigures ==
  lastOp \in {"invoice_pdf_download", "invoice_items_json"} =>
    /\ response.ok
    /\ [f \in {"subtotal", "tax", "total"} |-> response[f]] = StoredFigures(invoice)

\* a receiver is running right above the function at position i of the stack
ReceiverAbove(i) == i < Len(stack) /\ stack[i + 1].fn \in ReceiverNames

\* C15: every item or payment save or delete ends after a bounded number of
\* steps, and a write of the invoice never fires an item or payment receiver
\* again: no receiver runs on top of Invoice.save, none runs inside itself,
\* and a request that has begun always ends
C15_HandlersEndWithoutRefiring ==
  /\ [](\A i \in 1..Len(stack) :
          /\ stack[i].fn = "Invoice.save" => ~ReceiverAbove(i)
          /\ \A j \in 1..Len(stack) :
               (i # j /\ stack[i].fn \in ReceiverNames) => stack[i].fn # stack[j].fn)
  /\ [](fired <= MaxItems + MaxPayments)
  /\ (Running ~> ~Running)

\* an item was saved, its receiver wrote the invoice, and the request ended
C15_ItemSavedAndReceiverRan ==
  op = "add_invoice_item" /\ outcome = "success" /\ fired = 1

\* C19: once the deletion of an invoice has ended, no invoice, item or
\* payment row remains, and the receivers the cascade fires do not make the
\* deletion fail
C19_DeletedInvoiceLeavesNoRows ==
  op = "delete_invoice" =>
    /\ outcome # "error"
    /\ outcome = "success" => rows = NoRows

\* an invoice with items and payments was deleted and every receiver ran
C19_CascadeRanReceivers ==
  /\ op = "delete_invoice"
  /\ outcome = "success"
  /\ fired = MaxItems + MaxPayments

\* the fraction a / b is the fraction c / d
SameFraction(a, b, c, d) == b # 0 /\ d # 0 /\ a * d = c * b

\* C21: Trip.get_profit() is revenue minus the sum of the stored expense
\* amounts, Trip.get_profit_margin() is profit / revenue x 100 for a positive
\* revenue and 0 for revenue 0 without a division error, and computing them
\* changes neither the trip nor its expenses
C21_TripProfitAndMargin ==
  /\ [](metrics.by = "Trip" => ~metrics.raised)
  /\ [][metrics' # metrics /\ metrics'.by = "Trip" =>
          /\ UNCHANGED <<trip, expenses>>
          /\ metrics'.profit = trip.revenue - SumExpenses(expenses)
          /\ IF trip.revenue > 0
             THEN SameFraction(metrics'.margin_num, metrics'.margin_den,
                               (trip.revenue - SumExpenses(expenses)) * 100, trip.revenue)
             ELSE metrics'.margin_num = 0]_vars

\* the margin of a trip without revenue and with expenses was computed
C21_MarginWithoutRevenue ==
  /\ metrics.by = "Trip"
  /\ trip.revenue = 0
  /\ Len(expenses) > 0
  /\ metrics.profit = 0 - SumExpenses(expenses)

\* C22: calculate_trip_profitability(trip) returns the sum of the stored
\* expense amounts as total_expenses, revenue minus it as profit, the same
\* profit as Trip.get_profit(), and is_profitable exactly when profit > 0
C22_ProfitabilityMatchesTrip ==
  [][metrics' # metrics /\ metrics'.by = "calculate_trip_profitability" =>
       /\ metrics'.total_expenses = SumExpenses(expenses)
       /\ metrics'.profit = get_profit(trip, expenses)
       /\ metrics'.is_profitable = (metrics'.profit > 0)]_vars

\* the call names no address: none passed and no client or none on the client
NoRecipient(c) ==
  /\ ~Truthy(c.recipient_email)
  /\ (c.client.pk = None \/ ~Truthy(c.client.emailAddress))

\* the log of the last call has a line of one of the levels
Logged(levels) == \E i \in 1..Len(mail.log) : mail.log[i].level \in levels

\* C23: send_invoice_email returns True only when it handed a message to the
\* mail backend; called without any recipient, or with a backend that raises,
\* it returns False, sends nothing and logs an error; a PDF that cannot be
\* built is logged and the message is sent all the same, without attachment
C23_TrueOnlyIfSent ==
  [][mail' # mail =>
       LET c == mail'.call
           sent == mail'.outbox # mail.outbox
           logged(levels) ==
             \E i \in 1..Len(mail'.log) : mail'.log[i].level \in levels
       IN /\ mail'.returned = TRUE <=> sent
          /\ sent => Len(mail'.outbox) = Len(mail.outbox) + 1
          /\ NoRecipient(c) \/ c.backend = "raises"
               => mail'.returned = FALSE /\ ~sent /\ logged({"error"})
          /\ c.pdf # "built" /\ ~NoRecipient(c) /\ c.COMPANY_NAME
               => /\ logged({"warning", "error"})
                  /\ c.backend = "accepts" => sent /\ mail'.returned = TRUE]_vars

\* a message went out although its PDF could not be built
C23_SentWithoutPdf ==
  /\ mail.called
  /\ mail.call.pdf = "raises"
  /\ mail.returned = TRUE
  /\ mail.outbox # <<>>
  /\ mail.outbox[Len(mail.outbox)].attachment = Unset
  /\ Logged({"error"})

\* C24: a run of create_superuser that reports no error leaves exactly one
\* user named admin; a run that finds admin changes no account; and the
\* password of an admin the run created is the value of SUPERUSER_PASSWORD,
\* or the documented default when the variable is unset
C24_SuperuserIdempotentWithConfiguredPassword ==
  [][console' # console =>
       /\ console'.out # "Error creating superuser"
            => Cardinality(UsersNamed(users', "admin")) = 1
       /\ UsersNamed(users, "admin") # {} => users' = users
       /\ users' # users
            => \A u \in users' \ users :
                 check_password(
                   getenv(console'.SUPERUSER_PASSWORD, DefaultPassword),
                   u.password)]_vars

RefusedAmount(post) ==
  \/ post.amount.kind \in {"blank", "text"}
  \/ post.amount.kind = "number" /\ post.amount.value <= 0

\* C27: record_payment and edit_payment given an amount that is zero,
\* negative or not a number leave the payments and the invoice as they were,
\* and every stored payment has an amount above zero
C27_StoredPaymentsArePositive ==
  [][/\ \A post \in PayPosts :
          /\ RefusedAmount(post)
          /\ \/ record_payment_POST(post)
             \/ \E i \in 1..MaxPayments : edit_payment_POST(i, post)
          => UNCHANGED <<invoice, payments>>
     /\ \A i \in 1..Len(payments') : payments'[i].amount > 0]_vars

\* a request of user for one of the mutation views of the stored invoice
MutationBy(user) ==
  \/ \E u \in OwnerUpdates(invoice) : invoice_update_by(user, u[1], u[2])
  \/ \E inp \in ItemInputs : add_invoice_item_by(user, inp)
  \/ \E i \in 1..MaxItems, inp \in ItemInputs : edit_invoice_item_by(user, i, inp)
  \/ \E i \in 1..MaxItems : delete_invoice_item_by(user, i)
  \/ \E amount \in PayAmounts : record_payment_by(user, amount)
  \/ \E i \in 1..MaxPayments, amount \in PayAmounts : edit_payment_by(user, i, amount)
  \/ \E i \in 1..MaxPayments : delete_payment_by(user, i)
  \/ \E client \in Clients, pdf \in WeasyprintRuns, backend \in Backends :
       send_invoice_email_by(user, client, pdf, backend)

\* C28: a request of user A to invoice_update, add/edit/delete_invoice_item,
\* record_payment, edit_payment, delete_payment or send_invoice_email for an
\* invoice of user B changes neither the invoice nor its line items nor its
\* payments
C28_OtherUsersChangeNothing ==
  [][MutationBy("A") => UNCHANGED <<invoice, items, payments>>]_vars

\* user A was just denied the payment of an invoice of B that has line items
\* and a payment
C28_DeniedOnFilledInvoice ==
  /\ lastOp \in {"edit_payment", "delete_payment"}
  /\ message = "Permission denied."
  /\ Len(items) > 0
  /\ Len(payments) > 0

NoTripTwice(lns) == \A i, j \in 1..Len(lns) : lns[i].trip = lns[j].trip => i = j

\* C30: the line items of a manifest invoice change only while it is a draft:
\* trip_invoice_add_trip, trip_invoice_remove_trip and trip_invoice_edit_trip
\* called in another status leave the invoice and its line items as they
\* were, the invoice is deleted only as a draft, and no trip is on the
\* invoice twice
C30_LinesChangeOnlyInDraft ==
  /\ [](NoTripTwice(lines))
  /\ [][/\ lines' # lines => manifest.status = "draft"
        /\ manifest.pk # None /\ manifest'.pk = None => manifest.status = "draft"
        /\ /\ manifest.status # "draft"
           /\ \/ \E t \in ManifestTrips, post \in LinePosts :
                   trip_invoice_add_trip(t, post)
              \/ \E i \in 1..MaxTrips : trip_invoice_remove_trip(i)
              \/ \E i \in 1..MaxTrips, post \in LinePosts :
                   trip_invoice_edit_trip(i, post)
           => UNCHANGED <<manifest, lines>>]_vars

\* adding a trip that is already on a draft invoice was refused
C30_SecondAddRefused ==
  /\ notice = [view |-> "trip_invoice_add_trip", message |-> "error"]
  /\ manifest.status = "draft"
  /\ Len(lines) = MaxTrips

\* C25: once all the requests adding line items to one invoice at the same
\* time have finished, the stored subtotal is the sum of the totals of the line
\* items then stored and the stored amount_paid is the sum of the payments then
\* stored
C25_ConcurrentRequestsLeaveSums ==
  (\A r \in 1..MaxRequests : requests[r].pc = "done")
    => /\ invoice.subtotal = SumItemTotals(items)
       /\ invoice.amount_paid = SumAmounts(payments)

====
